---- MODULE Spec2Model ----
(***************************************************************************)
(* Entitlement ledger of the WhatsApp chatbot: message intake with         *)
(* delivery deduplication (app/api/whatsapp.py), the background answer     *)
(* unit, credit consumption and the Plug&Pay payment events                *)
(* (app/services/payment_logic.py, app/api/plugnpay.py).                   *)
(*                                                                         *)
(* Text values (phone numbers, plan names, event kinds) are sequences of   *)
(* one-character strings so that the character-level code (filtering,      *)
(* prefix tests, substring search, lower-casing) is computed, not assumed. *)
(* Python's None is the one-element sequence None for text values and the  *)
(* empty sequence for optional integers (<<n>> is the integer n).          *)
(***************************************************************************)
EXTENDS Integers, Sequences, FiniteSets, TLC

\* ------------------------------------------------------------------------
\* Bounds of the model
\* ------------------------------------------------------------------------
MaxRequests == 2      \* message-intake requests per behaviour
MaxPayments == 2      \* payment webhook requests per behaviour (SpecPay)
MaxEnvEvents == 1     \* purges plus payment webhook requests per behaviour (Spec)
NumCallers == 3       \* concurrent deduct_credit invocations (SpecDeduct)
MaxBalance == 2       \* largest starting balance of SpecDeduct
NumPayers == 2        \* concurrent payment webhook requests (SpecRace)
MaxUnits == 2         \* concurrent background units of one sender (SpecUnit)

\* ------------------------------------------------------------------------
\* Program constants
\* ------------------------------------------------------------------------
TRIAL_DAYS == 7
TRIAL_MAX_QUESTIONS == 10
TRIAL_CREDITS == 10
DEFAULT_PAYMENT_CREDITS == 50

None == <<"None">>
NoInt == <<>>

\* ------------------------------------------------------------------------
\* Text helpers (Python str operations)
\* ------------------------------------------------------------------------
UPPER == <<"A","B","C","D","E","F","G","H","I","J","K","L","M","N","O","P","Q","R","S","T","U","V","W","X","Y","Z">>
LOWER == <<"a","b","c","d","e","f","g","h","i","j","k","l","m","n","o","p","q","r","s","t","u","v","w","x","y","z">>

IsDigit(c) == c \in {"0","1","2","3","4","5","6","7","8","9"}
IsSpace(c) == c \in {" ", "\t", "\n"}

ToLower == [c \in {UPPER[i] : i \in 1..26} |-> LOWER[CHOOSE i \in 1..26 : UPPER[i] = c]]

LowerChar(c) == IF c \in DOMAIN ToLower THEN ToLower[c] ELSE c

\* str.lower()
Lower(s) == [i \in 1..Len(s) |-> LowerChar(s[i])]

RECURSIVE LStrip(_)
LStrip(s) == IF s # <<>> /\ IsSpace(Head(s)) THEN LStrip(Tail(s)) ELSE s

RECURSIVE RStrip(_)
RStrip(s) == IF s # <<>> /\ IsSpace(s[Len(s)]) THEN RStrip(SubSeq(s, 1, Len(s) - 1)) ELSE s

\* str.strip()
Strip(s) == RStrip(LStrip(s))

\* str.startswith(p)
StartsWith(s, p) == Len(s) >= Len(p) /\ SubSeq(s, 1, Len(p)) = p

\* s[k:] with a 0-based k
From(s, k) == SubSeq(s, k + 1, Len(s))

\* key in name
Contains(name, key) ==
    \E i \in 1..(Len(name) - Len(key) + 1) : SubSeq(name, i, i + Len(key) - 1) = key

\* ------------------------------------------------------------------------
\* Values the environment can send
\* ------------------------------------------------------------------------
Canon == <<"+","3","1","6","1","2","3","4","5","6","7","8">>
NoPlus == <<"3","1","6","1","2","3","4","5","6","7","8">>
Dutch06 == <<"0","6","1","2","3","4","5","6","7","8">>

PlanTrial == <<"T","r","i","a","l">>
PlanDefault == <<"D","e","f","a","u","l","t"," ","P","l","a","n">>
PlanStart == <<"B","u","d","d","y"," ","S","t","a","r","t">>
PlanPro == <<"B","u","d","d","y"," ","P","r","o">>
PlanPack50 == <<"C","r","e","d","i","t","s"," ","5","0">>
PlanGold == <<"G","o","l","d">>

subscription_created == <<"s","u","b","s","c","r","i","p","t","i","o","n","_","c","r","e","a","t","e","d">>
subscription_created_dot == <<"s","u","b","s","c","r","i","p","t","i","o","n",".","c","r","e","a","t","e","d">>
payment_received == <<"p","a","y","m","e","n","t","_","r","e","c","e","i","v","e","d">>
payment_received_dot == <<"p","a","y","m","e","n","t",".","r","e","c","e","i","v","e","d">>
new_simple_sale == <<"n","e","w","_","s","i","m","p","l","e","_","s","a","l","e">>
order_invoice_created == <<"o","r","d","e","r","_","i","n","v","o","i","c","e","_","c","r","e","a","t","e","d">>
subscription_updated == <<"s","u","b","s","c","r","i","p","t","i","o","n","_","u","p","d","a","t","e","d">>
subscription_updated_dot == <<"s","u","b","s","c","r","i","p","t","i","o","n",".","u","p","d","a","t","e","d">>
subscription_renewed == <<"s","u","b","s","c","r","i","p","t","i","o","n","_","r","e","n","e","w","e","d">>
subscription_cancelled == <<"s","u","b","s","c","r","i","p","t","i","o","n","_","c","a","n","c","e","l","l","e","d">>
subscription_cancelled_dot == <<"s","u","b","s","c","r","i","p","t","i","o","n",".","c","a","n","c","e","l","l","e","d">>
subscription_canceled == <<"s","u","b","s","c","r","i","p","t","i","o","n","_","c","a","n","c","e","l","e","d">>
PaymentReceivedMixed == <<"P","a","y","m","e","n","t","_","R","e","c","e","i","v","e","d">>
subscription_expired == <<"s","u","b","s","c","r","i","p","t","i","o","n","_","e","x","p","i","r","e","d">>
\* a kind no branch of the dispatcher names
charge_refunded == <<"c","h","a","r","g","e","_","r","e","f","u","n","d","e","d">>

\* sender identities the messaging provider delivers ("from")
Senders == {NoPlus}
\* provider-assigned message ids
MessageIds == {"wamid.A", "wamid.B"}
\* a message that carries no id
NoId == ""
\* phone spellings a payment payload can carry
PayNumbers == {Canon, Dutch06}
\* plan labels a payment payload can carry
PlanNames == {None, PlanStart, PlanPro, PlanPack50, PlanGold}
\* credits field of a payment payload
CreditHints == {NoInt, <<15>>, <<-5>>}
\* storage failures a session can hit: none, a transient one (connection /
\* closed / SSL text in the message), any other OperationalError
Failures == {"none", "transient", "other"}

\* ------------------------------------------------------------------------
\* Identity normalizer
\* ------------------------------------------------------------------------
\* line 148: the digits and "+" signs of s
digits_of(s) == SelectSeq(s, LAMBDA c : IsDigit(c) \/ c = "+")

\* variant: the leading "+" stays
without_plus_kept(digits) == digits

\* lines 151-152: a leading "+" is dropped
without_plus(digits) == IF StartsWith(digits, <<"+">>) THEN From(digits, 1) ELSE digits

\* lines 153-158: Dutch 06... and 6... get the country code
with_country_code(digits) ==
    IF StartsWith(digits, <<"0">>) /\ Len(digits) >= 9
        THEN <<"3","1">> \o From(digits, 1)
    ELSE IF Len(digits) >= 9 /\ ~StartsWith(digits, <<"3","1">>) /\ StartsWith(digits, <<"6">>)
        THEN <<"3","1">> \o digits
    ELSE digits

\* line 159
plus_or_none(digits) == IF digits # <<>> THEN <<"+">> \o digits ELSE None

\* variant: a text without digits is kept as it is
normalize_stripped_keeps_raw(s) ==
    IF s = <<>> THEN None
    ELSE IF digits_of(s) = <<>> THEN s
    ELSE plus_or_none(with_country_code(without_plus(digits_of(s))))

\* lines 146-159, from the stripped text s on
normalize_stripped(s) ==
    IF s = <<>> THEN None
    ELSE IF digits_of(s) = <<>> THEN None
    ELSE plus_or_none(with_country_code(without_plus(digits_of(s))))

normalize_whatsapp_number(value) ==
    IF value = None THEN None ELSE normalize_stripped(Strip(value))

\* first candidate of cs that is a key of table T, None when there is none
RECURSIVE FirstMatch(_, _)
FirstMatch(cs, T) ==
    IF cs = <<>> THEN None
    ELSE IF Head(cs) \in DOMAIN T THEN Head(cs)
    ELSE FirstMatch(Tail(cs), T)

\* line 99: normalized or (whatsapp_number and whatsapp_number.strip()) or ""
number_or_raw(normalized, whatsapp_number) ==
    IF normalized # None THEN normalized
    ELSE IF whatsapp_number # None THEN Strip(whatsapp_number)
    ELSE <<>>

\* line 103: normalized or number
normalized_or(normalized, number) == IF normalized # None THEN normalized ELSE number

\* lines 104-108: the spellings that are tried for number, in order
candidates(number) ==
    <<number>>
    \o (IF StartsWith(number, <<"+">>)
        THEN << From(number, 1) >>
             \o (IF StartsWith(number, <<"+","3","1">>) /\ Len(number) >= 11
                 THEN << <<"0">> \o From(number, 3) >>
                 ELSE <<>>)
        ELSE <<>>)

\* lines 100-113, from the number of line 99 on
find_subscription(number, T) ==
    IF number = <<>> THEN None
    ELSE FirstMatch(candidates(normalized_or(normalize_whatsapp_number(number), number)), T)

\* The key of the row get_subscription returns for whatsapp_number in the
\* committed table T, or None.
get_subscription(whatsapp_number, T) ==
    find_subscription(number_or_raw(normalize_whatsapp_number(whatsapp_number),
                                    whatsapp_number), T)

\* ------------------------------------------------------------------------
\* Entitlement ledger (payment_logic.py)
\* ------------------------------------------------------------------------
NoStatus == "<none>"

\* Python truthiness of a text value, and "a or b"
Truthy(a) == a # None /\ a # <<>>
Or(a, b) == IF Truthy(a) THEN a ELSE b

\* plan table, in the order the dict is iterated
PLAN_CREDITS == <<
    [key |-> <<"s","t","a","r","t">>,     credits |-> 75,  is_monthly |-> TRUE],
    [key |-> <<"a","c","t","i","v","e">>, credits |-> 150, is_monthly |-> TRUE],
    [key |-> <<"p","r","o">>,             credits |-> 300, is_monthly |-> TRUE],
    [key |-> <<"5","0">>,                 credits |-> 50,  is_monthly |-> FALSE],
    [key |-> <<"1","0","0">>,             credits |-> 100, is_monthly |-> FALSE] >>

RECURSIVE PlanLookup(_, _)
PlanLookup(name, table) ==
    IF table = <<>> THEN [credits |-> NoInt, is_monthly |-> FALSE]
    ELSE IF Contains(name, Head(table).key)
         THEN [credits |-> <<Head(table).credits>>, is_monthly |-> Head(table).is_monthly]
    ELSE PlanLookup(name, Tail(table))

\* (credits, is_monthly) for plan_name, (None, False) when nothing matches
plan_credits_from_name(plan_name) ==
    IF ~Truthy(plan_name) THEN [credits |-> NoInt, is_monthly |-> FALSE]
    ELSE PlanLookup(Strip(Lower(plan_name)), PLAN_CREDITS)

\* "if credits is None and plan_credits is not None: credits = plan_credits"
credits_or_plan(credits, plan_credits) ==
    IF credits = NoInt /\ plan_credits # NoInt THEN plan_credits ELSE credits

\* variant: without credits and without a plan amount nothing is granted
credits_or_zero(credits) ==
    IF credits = NoInt THEN 0 ELSE credits[1]

\* "if credits is None: credits = DEFAULT_PAYMENT_CREDITS"
credits_or_default(credits) ==
    IF credits = NoInt THEN DEFAULT_PAYMENT_CREDITS ELSE credits[1]

\* the amount handle_subscription_created grants: the credits of the event
\* when present, else the plan table's, else the configured default
resolved_credits(plan_name, credits) ==
    credits_or_default(credits_or_plan(credits, plan_credits_from_name(plan_name).credits))

\* variant: every grant is added to the balance
granted_balance_added(old, credits, is_monthly) == old + credits

\* variant: every grant replaces the balance
granted_balance_replaced(old, credits, is_monthly) == credits

\* the balance after a grant: replaced for a monthly plan, added otherwise
granted_balance(old, credits, is_monthly) ==
    IF is_monthly THEN credits ELSE old + credits

\* variant: the trial question cap is not looked at
may_ask_without_cap(k, T, t) ==
    IF k = None THEN FALSE
    ELSE IF T[k].status # "active" THEN FALSE
    ELSE IF T[k].subscription_end # NoInt /\ T[k].subscription_end[1] < t THEN FALSE
    ELSE IF T[k].credits < 1 THEN FALSE
    ELSE TRUE

\* lines 52-66 on the row stored under k (None: no row)
may_ask(k, T, t) ==
    IF k = None THEN FALSE
    ELSE IF T[k].status # "active" THEN FALSE
    ELSE IF T[k].subscription_end # NoInt /\ T[k].subscription_end[1] < t THEN FALSE
    ELSE IF T[k].credits < 1 THEN FALSE
    ELSE IF T[k].is_trial /\ T[k].message_count >= TRIAL_MAX_QUESTIONS THEN FALSE
    ELSE TRUE

\* can the user ask a question
verify_subscription(whatsapp_number, T, t) ==
    may_ask(get_subscription(whatsapp_number, T), T, t)

\* variant: no guard on the balance
has_credit_unguarded(credits) == TRUE

\* the guard of deduct_credit on the row it read
has_credit(credits) == ~(credits < 1)

\* the row the message intake creates for an unknown sender
TrialRow(t) ==
    [status |-> "active", plan_name |-> PlanTrial, is_recurring |-> FALSE,
     plugnpay_customer_id |-> None, credits |-> TRIAL_CREDITS,
     total_purchased |-> 0, message_count |-> 0, is_trial |-> TRUE,
     subscription_start |-> <<t>>, subscription_end |-> <<t + TRIAL_DAYS>>]

\* table T with row r stored under key k
Put(T, k, r) == [x \in DOMAIN T \cup {k} |-> IF x = k THEN r ELSE T[x]]

\* variant: a payment leaves the status of the row as it was
paid_row_keeps_status(sub, kw, credits, is_monthly, t) ==
    [sub EXCEPT
       !.credits = granted_balance(sub.credits, credits, is_monthly),
       !.total_purchased = sub.total_purchased + credits,
       !.is_trial = FALSE]

\* lines 193-206: the existing row sub after a payment that grants credits;
\* kw holds the keyword arguments of the handler
paid_row(sub, kw, credits, is_monthly, t) ==
    [sub EXCEPT
       !.status = "active",
       !.plan_name = Or(kw.plan_name, sub.plan_name),
       !.plugnpay_customer_id = Or(kw.plugnpay_customer_id, sub.plugnpay_customer_id),
       !.credits = granted_balance(sub.credits, credits, is_monthly),
       !.total_purchased = sub.total_purchased + credits,
       !.is_recurring = (kw.is_recurring = <<TRUE>>) \/ is_monthly,
       !.is_trial = FALSE,
       !.subscription_start = IF sub.subscription_start # NoInt
                              THEN sub.subscription_start ELSE <<t>>,
       !.subscription_end = IF kw.subscription_end # NoInt
                            THEN kw.subscription_end ELSE sub.subscription_end]

\* variant: a new paid subscription starts as a trial
new_row_as_trial(kw, credits, is_monthly, t) ==
    [TrialRow(t) EXCEPT !.credits = credits, !.total_purchased = credits,
                        !.plan_name = Or(kw.plan_name, PlanDefault)]

\* lines 212-223: the row of a new paid subscription
new_row(kw, credits, is_monthly, t) ==
    [status |-> "active",
     plan_name |-> Or(kw.plan_name, PlanDefault),
     plugnpay_customer_id |-> kw.plugnpay_customer_id,
     credits |-> credits,
     total_purchased |-> credits,
     message_count |-> 0,
     is_trial |-> FALSE,
     is_recurring |-> (kw.is_recurring = <<TRUE>>) \/ is_monthly,
     subscription_start |-> <<t>>,
     subscription_end |-> kw.subscription_end]

\* lines 188-228: the row found under k is updated, or a row is created
\* under number
store_payment(T, number, k, kw, credits, is_monthly, t) ==
    IF k # None
    THEN Put(T, k, paid_row(T[k], kw, credits, is_monthly, t))
    ELSE Put(T, number, new_row(kw, credits, is_monthly, t))

\* lines 181-228, from the normalized number on
created_for(number, T, kw, t) ==
    store_payment(T, number, get_subscription(number, T), kw,
                  resolved_credits(kw.plan_name, kw.credits),
                  plan_credits_from_name(kw.plan_name).is_monthly, t)

\* Create or update the subscription on a payment event; the table after the
\* commit.  Called with a number the caller has normalized.
handle_subscription_created(whatsapp_number, T, kw, t) ==
    created_for(normalize_whatsapp_number(whatsapp_number), T, kw, t)

\* lines 255-267: the row sub after an update that carries credits (NoInt:
\* none) for a plan that is monthly or not
updated_row(sub, kw, credits, is_monthly) ==
    [sub EXCEPT
       !.plan_name = IF kw.plan_name # None THEN kw.plan_name ELSE sub.plan_name,
       !.status = IF kw.status # NoStatus THEN kw.status ELSE sub.status,
       !.credits = IF credits # NoInt
                   THEN granted_balance(sub.credits, credits[1], is_monthly)
                   ELSE sub.credits,
       !.total_purchased = IF credits # NoInt THEN sub.total_purchased + credits[1]
                           ELSE sub.total_purchased,
       !.is_recurring = IF kw.is_recurring # NoInt THEN kw.is_recurring[1]
                        ELSE sub.is_recurring,
       !.subscription_end = IF kw.subscription_end # NoInt
                            THEN kw.subscription_end ELSE sub.subscription_end]

\* lines 251-253 with plan = _plan_credits_from_name(plan_name or sub.plan_name)
updated_with_plan(sub, kw, plan) ==
    updated_row(sub, kw, credits_or_plan(kw.credits, plan.credits), plan.is_monthly)

\* lines 246-274 on the row stored under k (None: unknown number)
updated_for(k, T, kw) ==
    IF k = None THEN T
    ELSE Put(T, k, updated_with_plan(T[k], kw,
                       plan_credits_from_name(Or(kw.plan_name, T[k].plan_name))))

\* Update an existing subscription; the table after the commit (unchanged
\* for an unknown number).
handle_subscription_updated(whatsapp_number, T, kw) ==
    updated_for(get_subscription(normalize_whatsapp_number(whatsapp_number), T), T, kw)

\* variant: cancelling also takes the credits away
cancelled_for_clears_balance(k, T) ==
    IF k = None THEN T ELSE Put(T, k, [T[k] EXCEPT !.status = "expired", !.credits = 0])

\* lines 283-292 on the row stored under k (None: unknown number)
cancelled_for(k, T) ==
    IF k = None THEN T ELSE Put(T, k, [T[k] EXCEPT !.status = "expired"])

\* Set the status to expired; the table after the commit.
handle_subscription_cancelled(whatsapp_number, T) ==
    cancelled_for(get_subscription(normalize_whatsapp_number(whatsapp_number), T), T)

CreatedKinds == {subscription_created, subscription_created_dot, payment_received,
                 payment_received_dot, new_simple_sale, order_invoice_created}
UpdatedKinds == {subscription_updated, subscription_updated_dot, subscription_renewed}
CancelledKinds == {subscription_cancelled, subscription_cancelled_dot, subscription_canceled}

\* what process_webhook_event hands back: the table, the value returned,
\* the exception raised to the caller, and the ledger operation that was
\* applied ("failed" when a storage failure hit it, "none" when no handler
\* ran)
Outcome(ok, T, op) == [T |-> T, ok |-> ok, raised |-> "none", op |-> op]

\* lines 309-358 with the normalized number and the lowered event type.
\* fail is the storage failure the handler's session hits; the handlers run
\* inside "try ... except Exception: return False", so a failure leaves the
\* table as it was and nothing is raised to the caller.
dispatch(event_lower, number, data, T, t, fail) ==
    IF number = None THEN Outcome(FALSE, T, "none")
    ELSE IF event_lower \in CreatedKinds
         THEN IF fail # "none" THEN Outcome(FALSE, T, "failed")
              ELSE Outcome(TRUE, handle_subscription_created(number, T, data, t), "created")
    ELSE IF event_lower \in UpdatedKinds
         THEN IF fail # "none" THEN Outcome(FALSE, T, "failed")
              ELSE Outcome(TRUE, handle_subscription_updated(number, T, data), "updated")
    ELSE IF event_lower \in CancelledKinds
         THEN IF fail # "none" THEN Outcome(FALSE, T, "failed")
              ELSE Outcome(TRUE, handle_subscription_cancelled(number, T), "cancelled")
    ELSE Outcome(FALSE, T, "none")

\* Dispatch one event with the session's view T of the table.
process_webhook_event(event_type, data, T, t, fail) ==
    IF ~Truthy(data.whatsapp_number) THEN Outcome(FALSE, T, "none")
    ELSE dispatch(Lower(Strip(event_type)),
                  normalize_whatsapp_number(data.whatsapp_number), data, T, t, fail)

\* ------------------------------------------------------------------------
\* Payment payloads, as the dispatcher receives them (event_type, data)
\* ------------------------------------------------------------------------
NoDigits == <<"n","/","a">>
Customer1 == <<"c","u","s","_","1">>

\* a phone the payload carries as a JSON number (31612345678, not a string);
\* the first element marks the Python type
JsonInt == "int"
PhoneAsNumber == <<JsonInt>> \o NoPlus

\* isinstance(value, str) for a value that is not None
IsStr(value) == value = <<>> \/ Head(value) # JsonInt

Data(number, plan, credits) ==
    [whatsapp_number |-> number, plan_name |-> plan, plugnpay_customer_id |-> None,
     credits |-> credits, is_recurring |-> <<FALSE>>, subscription_end |-> NoInt,
     status |-> NoStatus]

\* a value under "type", "event" or "event_type" of the body: a text (None:
\* the key is absent) or an object with the keys trigger_type and event
KindText(text) == [is_dict |-> FALSE, text |-> text, trigger_type |-> None, event |-> None]
KindObject(trigger_type, event) ==
    [is_dict |-> TRUE, text |-> None, trigger_type |-> trigger_type, event |-> event]
Absent == KindText(None)

Kinds(type, event, event_type) == [type |-> type, event |-> event, event_type |-> event_type]
NoKinds == Kinds(Absent, Absent, Absent)

\* a "type" that is a JSON number
KindAsNumber == <<JsonInt, "5">>

TruthyKind(v) == v.is_dict \/ Truthy(v.text)

\* line 301: body.get("type") or body.get("event") or body.get("event_type")
raw_type_of(kinds) ==
    IF TruthyKind(kinds.type) THEN kinds.type
    ELSE IF TruthyKind(kinds.event) THEN kinds.event
    ELSE kinds.event_type

\* variant: a body without a kind is given no kind
kind_of_without_default(raw_type) ==
    IF raw_type.is_dict
    THEN Or(raw_type.trigger_type, raw_type.event)
    ELSE raw_type.text

\* lines 302-305
kind_of(raw_type) ==
    IF raw_type.is_dict
    THEN Or(raw_type.trigger_type, Or(raw_type.event, order_invoice_created))
    ELSE Or(raw_type.text, payment_received)

\* lines 306-307
str_or_default(event_type) == IF IsStr(event_type) THEN event_type ELSE payment_received

\* the event type _extract_event_and_data returns, lines 301-307
extract_event_type(kinds) == str_or_default(kind_of(raw_type_of(kinds)))

\* what _extract_event_and_data returns for a body with these kind keys and
\* these data
Extracted(kinds, data) ==
    [event_type |-> extract_event_type(kinds), data |-> data, kinds |-> kinds]

\* a body whose "type" is kind
Event(kind, data) == Extracted(Kinds(KindText(kind), Absent, Absent), data)

Payloads ==
    { Event(payment_received, Data(n, p, c)) :
          n \in PayNumbers, p \in PlanNames, c \in CreditHints }
    \cup
    { Event(PaymentReceivedMixed, Data(Canon, PlanStart, NoInt)),
      Event(new_simple_sale,
            [Data(Canon, PlanPack50, <<15>>) EXCEPT
                !.plugnpay_customer_id = Customer1, !.is_recurring = <<TRUE>>,
                !.subscription_end = <<30>>]),
      Event(subscription_updated, [Data(Canon, None, NoInt) EXCEPT !.status = "expired"]),
      Event(subscription_updated, [Data(Canon, None, NoInt) EXCEPT !.status = "paused"]),
      Event(subscription_updated, [Data(Canon, PlanStart, NoInt) EXCEPT !.is_recurring = NoInt]),
      Event(subscription_renewed, Data(Canon, PlanPack50, NoInt)),
      Event(subscription_cancelled, Data(Dutch06, None, NoInt)),
      Event(subscription_expired, Data(Canon, None, NoInt)),
      Event(payment_received, Data(None, PlanStart, NoInt)),
      Event(payment_received, Data(NoDigits, PlanStart, NoInt)),
      Event(charge_refunded, Data(Canon, PlanStart, NoInt)),
      Event(payment_received, Data(PhoneAsNumber, PlanStart, NoInt)),
      Extracted(NoKinds, Data(Canon, PlanPack50, NoInt)),
      Extracted(Kinds(Absent, KindObject(None, None), Absent), Data(Canon, PlanPack50, NoInt)),
      Extracted(Kinds(KindText(KindAsNumber), Absent, Absent), Data(Canon, PlanPack50, NoInt)) }

\* the payment events of the specification of the message intake
IntakePayloads ==
    { Event(payment_received, Data(Canon, PlanStart, NoInt)),
      Event(payment_received, Data(Dutch06, PlanPack50, <<15>>)) }

\* ------------------------------------------------------------------------
\* State
\* ------------------------------------------------------------------------
VARIABLES
    subs,        \* committed subscriptions table: whatsapp_number -> row
    processed,   \* committed processed_messages table: set of message ids
    reqs,        \* message-intake requests: position and session state
    units,       \* background tasks handle_rag_and_reply, in scheduling order
    now,         \* the clock, in days
    epoch,       \* number of purges so far
    payCount,    \* number of payment webhook requests so far
    lastPay,     \* outcome of the last payment webhook request
    hist,        \* ledger operations the payment webhook applied, in order
    bal0,        \* balance of the identity in the initial state
    call,        \* last application of normalize_whatsapp_number: value, result
    pays         \* payment handlers running concurrently: position, session

vars == <<subs, processed, reqs, units, now, epoch, payCount, lastPay, hist, bal0, call, pays>>

ReqIds == 1..MaxRequests

\* seq: every earlier request had ended when this one arrived; clean: no
\* purge has run since this one arrived
IdleReq == [pc |-> "idle", mid |-> NoId, sender |-> None, pending |-> FALSE,
            scheduled |-> FALSE, status |-> "", seq |-> FALSE, clean |-> FALSE]

NoPay == [fail |-> "none", attempts |-> 0, status |-> "", op |-> "none", event |-> None,
          data |-> Data(None, None, NoInt), req |-> None, kinds |-> NoKinds]

NoCall == [value |-> None, result |-> None]

\* balance of the row get_subscription finds for number, 0 without a row
credits_at(k, T) == IF k = None THEN 0 ELSE T[k].credits

Balance(number, T) == credits_at(get_subscription(number, T), T)

\* The tables the message intake can start from: no account, or the trial
\* account of a sender whose first message was handled (and its delivery
\* record purged) before.
InitTables == { <<>>, Put(<<>>, NoPlus, TrialRow(0)) }

Init ==
    /\ subs \in InitTables
    /\ processed = {}
    /\ reqs = [r \in ReqIds |-> IdleReq]
    /\ units = <<>>
    /\ now = 0
    /\ epoch = 0
    /\ payCount = 0
    /\ lastPay = NoPay
    /\ hist = <<>>
    /\ call = NoCall
    /\ pays = <<>>
    /\ bal0 = Balance(Canon, subs)

\* ------------------------------------------------------------------------
\* Message intake: receive_message and _process_webhook_messages
\* ------------------------------------------------------------------------
\* POST /get-messages arrives with one message and get_db opens a session.
\* A message without an id is skipped (line 105) and the request ends.
receive_message(r, mid, sender) ==
    /\ reqs[r].pc = "idle"
    /\ IF r = 1 THEN TRUE ELSE reqs[r - 1].pc # "idle"
    /\ reqs' = [reqs EXCEPT ![r] =
                 [IdleReq EXCEPT !.pc = IF mid = NoId THEN "done" ELSE "check",
                                 !.mid = mid, !.sender = sender,
                                 !.status = "success",
                                 !.seq = \A q \in 1..(r - 1) : reqs[q].pc = "done",
                                 !.clean = TRUE]]
    /\ UNCHANGED <<subs, processed, units, now, epoch, payCount, lastPay, hist, bal0, call, pays>>

\* line 107: is the message id already recorded; when it is the message is
\* skipped and the request ends
check_processed(r) ==
    /\ reqs[r].pc = "check"
    /\ reqs' = [reqs EXCEPT ![r].pc =
                 IF reqs[r].mid \in processed THEN "done" ELSE "lookup"]
    /\ UNCHANGED <<subs, processed, units, now, epoch, payCount, lastPay, hist, bal0, call, pays>>

NewUnit(r) == [pc |-> "queued", req |-> r, mid |-> reqs[r].mid,
               sender |-> reqs[r].sender, key |-> None, rc |-> 0, rm |-> 0,
               allowed |-> FALSE, answered |-> FALSE, deducted |-> FALSE]

\* what get_db's db.close() does to the records that are pending in the
\* session of a request that ends without a commit: they are discarded
close_session(pending_ids, P) == P

\* lines 109-110 and, for a known sender, 126-127 and the end of the request:
\* the record is added to the session (not flushed) and the sender's row is
\* looked up by the raw sender; when it exists the background task is added,
\* the response is sent and get_db closes the session
lookup_subscription(r) ==
    /\ reqs[r].pc = "lookup"
    /\ IF reqs[r].sender \in DOMAIN subs
       THEN /\ reqs' = [reqs EXCEPT ![r].scheduled = TRUE, ![r].pc = "done"]
            /\ units' = Append(units, NewUnit(r))
            /\ processed' = close_session({reqs[r].mid}, processed)
       ELSE /\ reqs' = [reqs EXCEPT ![r].pending = TRUE, ![r].pc = "create"]
            /\ UNCHANGED <<units, processed>>
    /\ UNCHANGED <<subs, now, epoch, payCount, lastPay, hist, bal0, call, pays>>

\* lines 111-127 for an unknown sender and the end of the request: the trial
\* row is added and the session committed, which inserts the pending record
\* too; a uniqueness conflict raises IntegrityError, which receive_message
\* answers with "ignored" (the session is closed, nothing is inserted)
create_trial(r) ==
    /\ reqs[r].pc = "create"
    /\ IF reqs[r].sender \in DOMAIN subs \/ reqs[r].mid \in processed
       THEN /\ reqs' = [reqs EXCEPT ![r].pc = "done", ![r].status = "ignored",
                                    ![r].pending = FALSE]
            /\ UNCHANGED <<subs, processed, units>>
       ELSE /\ subs' = Put(subs, reqs[r].sender, TrialRow(now))
            /\ processed' = processed \cup {reqs[r].mid}
            /\ reqs' = [reqs EXCEPT ![r].pending = FALSE, ![r].scheduled = TRUE,
                                    ![r].pc = "done"]
            /\ units' = Append(units, NewUnit(r))
    /\ UNCHANGED <<now, epoch, payCount, lastPay, hist, bal0, call, pays>>

\* ------------------------------------------------------------------------
\* Background unit: handle_rag_and_reply and deduct_credit
\* ------------------------------------------------------------------------
UnitIds == 1..Len(units)

\* variant: the answer is generated whatever the subscription check said
answer_invoked_ungated(allowed) == TRUE

\* lines 55-61: get_response is called when verify_subscription returned
\* true; otherwise the upgrade message is sent and the unit returns
answer_invoked(allowed) == allowed

\* variant: a failure of get_response is swallowed and the unit goes on
deduct_invoked_always(invoked, ok) == invoked

\* lines 61-65: deduct_credit is reached when get_response was called and
\* returned (ok); when it raises, the unit ends in the finally clause
deduct_invoked(invoked, ok) == invoked /\ ok

\* the unit u after lines 55-64, verify_subscription having returned allowed
answered_unit(u, allowed, ok) ==
    [units EXCEPT ![u].allowed = allowed,
                  ![u].answered = answer_invoked(allowed) /\ ok,
                  ![u].pc = IF deduct_invoked(answer_invoked(allowed), ok)
                            THEN "deduct" ELSE "done"]

\* lines 53-64: the subscription check and, when it passes, the answer:
\* generated and sent (ok), or get_response raises and the unit ends
unit_answer(u, ok) ==
    /\ units[u].pc = "queued"
    /\ IF units[u].req = 0 THEN TRUE ELSE reqs[units[u].req].pc = "done"
    /\ units' = answered_unit(u, verify_subscription(units[u].sender, subs, now), ok)
    /\ UNCHANGED <<subs, processed, reqs, now, epoch, payCount, lastPay, hist, bal0, call, pays>>

\* deduct_credit lines 82-86: the row is read and the guard evaluated; k is
\* the key of the row get_subscription returned
read_row(u, k) ==
    IF k = None
    THEN units' = [units EXCEPT ![u].pc = "done"]
    ELSE IF ~has_credit(subs[k].credits)
    THEN units' = [units EXCEPT ![u].pc = "done"]
    ELSE units' = [units EXCEPT ![u].pc = "write", ![u].key = k,
                                ![u].rc = subs[k].credits,
                                ![u].rm = subs[k].message_count]

deduct_read(u) ==
    /\ units[u].pc = "deduct"
    /\ read_row(u, get_subscription(units[u].sender, subs))
    /\ UNCHANGED <<subs, processed, reqs, now, epoch, payCount, lastPay, hist, bal0, call, pays>>

\* deduct_credit lines 87-91: the values computed from the row that was read
\* are written and committed
deduct_write(u) ==
    /\ units[u].pc = "write"
    /\ subs' = [subs EXCEPT ![units[u].key].credits = units[u].rc - 1,
                            ![units[u].key].message_count = units[u].rm + 1]
    /\ units' = [units EXCEPT ![u].pc = "done", ![u].deducted = TRUE,
                              ![u].key = None, ![u].rc = 0, ![u].rm = 0]
    /\ UNCHANGED <<processed, reqs, now, epoch, payCount, lastPay, hist, bal0, call, pays>>

\* ------------------------------------------------------------------------
\* Housekeeping: run_processed_message_cleanup
\* ------------------------------------------------------------------------
purge ==
    /\ payCount + epoch < MaxEnvEvents
    /\ processed' = {}
    /\ epoch' = epoch + 1
    /\ reqs' = [r \in ReqIds |-> [reqs[r] EXCEPT !.clean = FALSE]]
    /\ UNCHANGED <<subs, units, now, payCount, lastPay, hist, bal0, call, pays>>

\* ------------------------------------------------------------------------
\* Payment webhook: plugnpay_webhook
\* ------------------------------------------------------------------------
\* PLUG_N_PAY_TOKEN, a token that is not the secret, and the secret as an
\* Authorization header carries it
Secret == <<"s","3","c","r","3","t">>
WrongToken == <<"w","r","o","n","g">>
Bearer == <<"B","e","a","r","e","r"," ">>
BearerSecret == Bearer \o Secret
\* a header value that is not the secret and holds the scheme word inside
InfixSecret == <<"s","3","c">> \o Bearer \o <<"r","3","t">>

\* str.replace(p, "")
RECURSIVE Remove(_, _)
Remove(s, p) ==
    IF Len(s) < Len(p) THEN s
    ELSE IF StartsWith(s, p) THEN Remove(From(s, Len(p)), p)
    ELSE <<Head(s)>> \o Remove(Tail(s), p)

\* _WEBHOOK_TOKEN_HEADERS and _WEBHOOK_TOKEN_BODY_KEYS, by position
TokenHeaders == 1..5
TokenBodyKeys == 1..5

\* a request: the configured secret (None: not set), the values of the
\* token headers and of the token body keys (None: not sent)
Request(secret, headers, body) == [secret |-> secret, headers |-> headers, body |-> body]

\* the request of a provider that sends no token
NoTokenRequest == Request(Secret, [h \in TokenHeaders |-> None], [k \in TokenBodyKeys |-> None])

\* the requests of SpecAuth: X-Webhook-Token and Authorization headers,
\* webhook_token and token body keys
AuthRequests ==
    { Request(secret,
              [h \in TokenHeaders |-> IF h = 1 THEN h1 ELSE IF h = 5 THEN h5 ELSE None],
              [k \in TokenBodyKeys |-> IF k = 1 THEN b1 ELSE IF k = 4 THEN b4 ELSE None]) :
          secret \in {Secret, None},
          h1 \in {None, Secret, WrongToken, InfixSecret}, h5 \in {None, WrongToken, BearerSecret},
          b1 \in {None, WrongToken}, b4 \in {None, Secret} }

\* lines 257-292
verify_webhook_token(token, headers, body) ==
    IF ~Truthy(token) THEN TRUE
    ELSE IF \E h \in TokenHeaders :
               Truthy(headers[h]) /\ Strip(Remove(headers[h], Bearer)) = token
         THEN TRUE
    ELSE IF \E k \in TokenBodyKeys : body[k] = token THEN TRUE
    ELSE IF (\A h \in TokenHeaders : ~Truthy(headers[h]))
            /\ (\A k \in TokenBodyKeys : body[k] = None)
         THEN TRUE
    ELSE FALSE

IsTransient(f) == f = "transient"

\* the ledger operation a payload asks for, as recorded in hist
Grant(ev, op) ==
    [op |-> op, ev |-> ev,
     is_monthly |-> plan_credits_from_name(ev.data.plan_name).is_monthly,
     grant |-> resolved_credits(ev.data.plan_name, ev.data.credits)]

Applied(op) == op \in {"created", "updated", "cancelled"}

\* lines 523-540: the second attempt, in a fresh session, has returned r2
retried(r2, req, ev, fail) ==
    /\ subs' = r2.T
    /\ lastPay' = [fail |-> fail, attempts |-> 2,
                   status |-> IF r2.raised # "none" THEN "raise"
                              ELSE IF r2.ok THEN "ok" ELSE "ignored",
                   op |-> r2.op, event |-> ev.event_type, data |-> ev.data, req |-> req, kinds |-> ev.kinds]
    /\ hist' = IF Applied(r2.op) THEN Append(hist, Grant(ev, r2.op)) ELSE hist

\* lines 510-540: the first attempt has returned (or raised) r1
attempted(r1, req, ev, fail) ==
    IF r1.raised = "none"
    THEN /\ subs' = r1.T
         /\ lastPay' = [fail |-> IF r1.op = "failed" THEN fail ELSE "none",
                        attempts |-> 1,
                        status |-> IF r1.ok THEN "ok" ELSE "ignored",
                        op |-> r1.op, event |-> ev.event_type, data |-> ev.data, req |-> req, kinds |-> ev.kinds]
         /\ hist' = IF Applied(r1.op) THEN Append(hist, Grant(ev, r1.op)) ELSE hist
    ELSE IF IsTransient(r1.raised)
    THEN \E fail2 \in Failures :
            retried(process_webhook_event(ev.event_type, ev.data, subs, now, fail2),
                    req, ev, fail)
    ELSE /\ lastPay' = [fail |-> fail, attempts |-> 1, status |-> "raise", op |-> "none",
                        event |-> ev.event_type, data |-> ev.data, req |-> req, kinds |-> ev.kinds]
         /\ UNCHANGED <<subs, hist>>

\* the request has ended before a session was opened, with status st
\* ("forbidden": 403; "ignored": 200 and nothing done; "raise": an exception
\* left the handler)
ended_early(req, ev, st) ==
    /\ lastPay' = [fail |-> "none", attempts |-> 0, status |-> st, op |-> "none",
                   event |-> ev.event_type, data |-> ev.data, req |-> req, kinds |-> ev.kinds]
    /\ UNCHANGED <<subs, hist>>

\* lines 454-540.  The token check answers 403; line 492 slices the phone
\* of the payload, which raises TypeError when it is not a string; lines
\* 500-506 ignore a payload without a phone.
plugnpay_webhook(req, ev, fail, limit) ==
    /\ payCount + epoch < limit
    /\ payCount' = payCount + 1
    /\ IF ~verify_webhook_token(req.secret, req.headers, req.body)
            THEN ended_early(req, ev, "forbidden")
       ELSE IF ~Truthy(ev.data.whatsapp_number) THEN ended_early(req, ev, "ignored")
       ELSE IF ~IsStr(ev.data.whatsapp_number) THEN ended_early(req, ev, "raise")
       ELSE attempted(process_webhook_event(ev.event_type, ev.data, subs, now, fail),
                      req, ev, fail)
    /\ UNCHANGED <<processed, reqs, units, now, epoch, bal0, call, pays>>

\* ------------------------------------------------------------------------
\* Specifications
\* ------------------------------------------------------------------------
Next ==
    \/ \E r \in ReqIds, mid \in MessageIds \cup {NoId}, sender \in Senders :
          receive_message(r, mid, sender)
    \/ \E r \in ReqIds : check_processed(r)
    \/ \E r \in ReqIds : lookup_subscription(r)
    \/ \E r \in ReqIds : create_trial(r)
    \/ \E u \in UnitIds, ok \in BOOLEAN : unit_answer(u, ok)
    \/ \E u \in UnitIds : deduct_read(u)
    \/ \E u \in UnitIds : deduct_write(u)
    \/ purge
    \/ \E ev \in IntakePayloads : plugnpay_webhook(NoTokenRequest, ev, "none", MaxEnvEvents)

Spec == Init /\ [][Next]_vars

\* ------------------------------------------------------------------------
\* SpecDeduct: NumCallers concurrent invocations of deduct_credit for one
\* identity whose row holds a balance of 0..MaxBalance
\* ------------------------------------------------------------------------
Caller == [pc |-> "deduct", req |-> 0, mid |-> "", sender |-> NoPlus, key |-> None,
           rc |-> 0, rm |-> 0, allowed |-> TRUE, answered |-> TRUE, deducted |-> FALSE]

InitDeduct ==
    /\ \E m \in 0..MaxBalance :
          /\ subs = Put(<<>>, NoPlus, [TrialRow(0) EXCEPT !.credits = m])
          /\ bal0 = m
    /\ processed = {}
    /\ reqs = [r \in ReqIds |-> IdleReq]
    /\ units = [u \in 1..NumCallers |-> Caller]
    /\ now = 0
    /\ epoch = 0
    /\ payCount = 0
    /\ lastPay = NoPay
    /\ hist = <<>>
    /\ call = NoCall
    /\ pays = <<>>

NextDeduct ==
    \/ \E u \in UnitIds : deduct_read(u)
    \/ \E u \in UnitIds : deduct_write(u)

SpecDeduct == InitDeduct /\ [][NextDeduct]_vars

\* ------------------------------------------------------------------------
\* SpecUnit: MaxUnits background units handle_rag_and_reply of one sender,
\* run concurrently against an account in any condition, at any time around
\* the end of its period
\* ------------------------------------------------------------------------
UnitStatuses == {"active", "expired", "blocked"}
UnitPeriodEnds == {NoInt, <<7>>}
UnitBalances == {0, 1, 2}
UnitQuestionCounts == {9, 10}
UnitClocks == {6, 7, 8}

UnitRows ==
    { [TrialRow(0) EXCEPT !.status = st, !.subscription_end = e, !.credits = c,
                          !.is_trial = tr, !.message_count = m] :
          st \in UnitStatuses, e \in UnitPeriodEnds, c \in UnitBalances,
          tr \in BOOLEAN, m \in UnitQuestionCounts }

UnitTables == { <<>> } \cup { Put(<<>>, NoPlus, row) : row \in UnitRows }

QueuedUnit == [Caller EXCEPT !.pc = "queued", !.allowed = FALSE, !.answered = FALSE]

InitUnit ==
    /\ subs \in UnitTables
    /\ now \in UnitClocks
    /\ units = [u \in 1..MaxUnits |-> QueuedUnit]
    /\ processed = {}
    /\ reqs = [r \in ReqIds |-> IdleReq]
    /\ epoch = 0
    /\ payCount = 0
    /\ lastPay = NoPay
    /\ hist = <<>>
    /\ call = NoCall
    /\ pays = <<>>
    /\ bal0 = Balance(NoPlus, subs)

NextUnit ==
    \/ \E u \in UnitIds, ok \in BOOLEAN : unit_answer(u, ok)
    \/ \E u \in UnitIds : deduct_read(u)
    \/ \E u \in UnitIds : deduct_write(u)

SpecUnit == InitUnit /\ [][NextUnit]_vars

\* ------------------------------------------------------------------------
\* SpecPay: a sequence of payment webhook requests for one identity, one
\* after the other, with nothing else in between
\* ------------------------------------------------------------------------
\* the tables a sequence of payment events can start from: no account, a
\* fresh trial account, an account an operator has blocked, a used trial
\* account, a paid account, a trial account whose period ended yesterday
PayInitTables ==
    { <<>>,
      Put(<<>>, NoPlus, TrialRow(0)),
      Put(<<>>, NoPlus, TrialRow(0 - TRIAL_DAYS - 1)),
      Put(<<>>, NoPlus, [TrialRow(0) EXCEPT !.status = "blocked"]),
      Put(<<>>, NoPlus, [TrialRow(0) EXCEPT !.credits = 7, !.message_count = 3]),
      handle_subscription_created(Canon, <<>>, Data(Canon, PlanPack50, <<20>>), 0) }

InitPay ==
    /\ subs \in PayInitTables
    /\ processed = {}
    /\ reqs = [r \in ReqIds |-> IdleReq]
    /\ units = <<>>
    /\ now = 0
    /\ epoch = 0
    /\ payCount = 0
    /\ lastPay = NoPay
    /\ hist = <<>>
    /\ call = NoCall
    /\ pays = <<>>
    /\ bal0 = Balance(Canon, subs)

NextPay ==
    \E ev \in Payloads, fail \in Failures : plugnpay_webhook(NoTokenRequest, ev, fail, MaxPayments)

SpecPay == InitPay /\ [][NextPay]_vars

\* ------------------------------------------------------------------------
\* SpecAuth: payment webhook requests with and without tokens, against a
\* deployment with and without a configured secret
\* ------------------------------------------------------------------------
AuthPayloads == { Event(payment_received, Data(Canon, PlanStart, NoInt)) }

NextAuth ==
    \E req \in AuthRequests, ev \in AuthPayloads : plugnpay_webhook(req, ev, "none", MaxEnvEvents)

SpecAuth == InitPay /\ [][NextAuth]_vars

\* ------------------------------------------------------------------------
\* SpecNorm: normalize_whatsapp_number applied to phone texts
\* ------------------------------------------------------------------------
\* the subscriber part of the Dutch mobile number +31612345678
Subscriber == <<"6","1","2","3","4","5","6","7","8">>

NormPrefixes ==
    { <<>>, <<"+">>, <<"+","+">>, <<" ">>, <<"0">>, <<"0","0">>, <<"+","0">>,
      <<"3","1">>, <<"+","3","1">>, <<"3","1","0">>, <<"+","3","1","0">>,
      <<"0","0","3","1">>, <<"+","3","1"," ">> }

NormBodies ==
    { Subscriber, <<"1","2","3","4","5","6","7","8">>,
      <<"6"," ","1","2","3","4","-","5","6","7","8">>, <<"6","1","2","3","4">>,
      <<>>, <<"a","b","c">> }

NormSuffixes == { <<>>, <<" ">>, <<"+">>, <<"x">> }

NormInputs ==
    { None } \cup { p \o b \o x : p \in NormPrefixes, b \in NormBodies, x \in NormSuffixes }

InitNorm ==
    /\ subs = <<>>
    /\ processed = {}
    /\ reqs = [r \in ReqIds |-> IdleReq]
    /\ units = <<>>
    /\ now = 0
    /\ epoch = 0
    /\ payCount = 0
    /\ lastPay = NoPay
    /\ hist = <<>>
    /\ call = NoCall
    /\ pays = <<>>
    /\ bal0 = 0

normalize_call(value) ==
    /\ call' = [value |-> value, result |-> normalize_whatsapp_number(value)]
    /\ UNCHANGED <<subs, processed, reqs, units, now, epoch, payCount, lastPay, hist, bal0, pays>>

NextNorm == \E value \in NormInputs : normalize_call(value)

SpecNorm == InitNorm /\ [][NextNorm]_vars

\* ------------------------------------------------------------------------
\* SpecRetry: message-intake requests whose body carries one or two
\* messages of one sender, handled one after the other, with a storage
\* failure at any query or commit of _process_webhook_messages
\* ------------------------------------------------------------------------
\* the queries and the commit of one pass of the loop body (lines 107, 110,
\* 125, 126)
Stages == {"check", "lookup", "commit", "count"}

\* no failure, or a failure at a stage of the at-th message of the body
NoFailure == [at |-> 0, stage |-> "none"]
FailurePoints == {NoFailure} \cup [at : 1..2, stage : Stages]

Bodies ==
    { <<m>> : m \in MessageIds \cup {NoId} } \cup { <<m1, m2>> : m1, m2 \in MessageIds }

\* a call of _process_webhook_messages: the committed tables T and P, the
\* ProcessedMessage records pending in its session, the background tasks
\* added so far, and whether OperationalError was raised
Session(T, P, tasks) == [T |-> T, P |-> P, pending |-> {}, tasks |-> tasks, raised |-> FALSE]

Raised(st) == [st EXCEPT !.raised = TRUE]

\* lines 126-127
after_commit(st, mid, f) ==
    IF f = "count" THEN Raised(st) ELSE [st EXCEPT !.tasks = Append(@, mid)]

\* lines 111-127
after_lookup(st, mid, sender, f, t) ==
    IF sender \in DOMAIN st.T THEN after_commit(st, mid, f)
    ELSE IF f = "commit" THEN Raised(st)
    ELSE after_commit([st EXCEPT !.T = Put(st.T, sender, TrialRow(t)),
                                 !.P = st.P \cup st.pending, !.pending = {}], mid, f)

\* lines 110-127
after_add(st, mid, sender, f, t) ==
    IF f = "lookup" THEN Raised(st) ELSE after_lookup(st, mid, sender, f, t)

\* lines 102-127: one pass of the loop body; f is the stage that fails
process_message(st, mid, sender, f, t) ==
    IF mid = NoId THEN st
    ELSE IF f = "check" THEN Raised(st)
    ELSE IF mid \in st.P \cup st.pending THEN st
    ELSE after_add([st EXCEPT !.pending = @ \cup {mid}], mid, sender, f, t)

\* the stage that fails in the i-th pass
stage_at(fail, i) == IF fail.at = i THEN fail.stage ELSE "none"

\* lines 99-128, from the i-th message of the body on
RECURSIVE process_webhook_messages(_, _, _, _, _, _)
process_webhook_messages(st, body, sender, i, fail, t) ==
    IF i > Len(body) \/ st.raised THEN st
    ELSE process_webhook_messages(process_message(st, body[i], sender, stage_at(fail, i), t),
                                  body, sender, i + 1, fail, t)

\* the background tasks of request r
ScheduledUnit(r, mid, sender) ==
    [pc |-> "queued", req |-> r, mid |-> mid, sender |-> sender, key |-> None,
     rc |-> 0, rm |-> 0, allowed |-> FALSE, answered |-> FALSE, deducted |-> FALSE]

\* the request r has ended with the session st
responded(r, st, sender) ==
    /\ subs' = st.T
    /\ processed' = st.P
    /\ units' = units \o [i \in 1..Len(st.tasks) |-> ScheduledUnit(r, st.tasks[i], sender)]
    /\ reqs' = [reqs EXCEPT ![r].pc = "done", ![r].sender = sender,
                            ![r].scheduled = st.tasks # <<>>,
                            ![r].status = IF st.raised THEN "ignored" ELSE "success"]

\* lines 151-161: the first call has returned st1
first_returned(r, st1, body, sender, kind, fail2) ==
    IF st1.raised /\ IsTransient(kind)
    THEN responded(r, process_webhook_messages(Session(st1.T, st1.P, st1.tasks), body,
                                               sender, 1, fail2, now), sender)
    ELSE responded(r, st1, sender)

\* receive_message, lines 143-167, for a whole body: the first call, and
\* on an OperationalError of a stale connection a second call with a fresh
\* session and the same background_tasks
receive_body(r, body, sender, fail1, kind, fail2) ==
    /\ reqs[r].pc = "idle"
    /\ IF r = 1 THEN TRUE ELSE reqs[r - 1].pc # "idle"
    /\ first_returned(r, process_webhook_messages(Session(subs, processed, <<>>), body,
                                                  sender, 1, fail1, now),
                      body, sender, kind, fail2)
    /\ UNCHANGED <<now, epoch, payCount, lastPay, hist, bal0, call, pays>>

NextRetry ==
    \E r \in ReqIds, body \in Bodies, sender \in Senders, fail1, fail2 \in FailurePoints,
       kind \in Failures \ {"none"} :
          receive_body(r, body, sender, fail1, kind, fail2)

SpecRetry == Init /\ [][NextRetry]_vars

\* ------------------------------------------------------------------------
\* SpecRace: NumPayers payment webhook requests with one-off payments for
\* one identity, each in its own session, running concurrently with each
\* other and with one deduct_credit for the same identity
\* ------------------------------------------------------------------------
RacePayloads ==
    { Event(payment_received, Data(Canon, PlanPack50, NoInt)),
      Event(payment_received, Data(Dutch06, None, <<15>>)) }

\* a payment handler before line 188; key and sub are the row its session
\* has loaded, ok is what process_webhook_event returns
Payer(ev) == [pc |-> "lookup", ev |-> ev, key |-> None, sub |-> None, ok |-> FALSE]

PayerIds == 1..Len(pays)

RaceTables ==
    { <<>>,
      Put(<<>>, NoPlus, TrialRow(0)),
      handle_subscription_created(Canon, <<>>, Data(Canon, PlanPack50, <<20>>), 0) }

InitRace ==
    /\ subs \in RaceTables
    /\ pays \in [1..NumPayers -> {Payer(ev) : ev \in RacePayloads}]
    /\ units \in {<<>>, <<Caller>>}
    /\ processed = {}
    /\ reqs = [r \in ReqIds |-> IdleReq]
    /\ now = 0
    /\ epoch = 0
    /\ payCount = 0
    /\ lastPay = NoPay
    /\ hist = <<>>
    /\ call = NoCall
    /\ bal0 = Balance(Canon, subs)

\* the session of payer i has loaded the row under k (None: no row)
loaded(i, k) ==
    pays' = [pays EXCEPT ![i].pc = "commit", ![i].key = k,
                         ![i].sub = IF k = None THEN None ELSE subs[k]]

\* line 188 of handle_subscription_created in the session of payer i
created_lookup(i) ==
    /\ pays[i].pc = "lookup"
    /\ loaded(i, get_subscription(normalize_whatsapp_number(pays[i].ev.data.whatsapp_number),
                                  subs))
    /\ UNCHANGED <<subs, processed, reqs, units, now, epoch, payCount, lastPay, hist, bal0, call>>

\* the UPDATE a commit issues for a loaded row: the columns whose value the
\* handler has changed are set, the others are left as the table has them
flushed(row, sub, changed) ==
    [f \in DOMAIN row |-> IF changed[f] # sub[f] THEN changed[f] ELSE row[f]]

\* lines 192-209: the loaded row sub is changed and committed
updated_loaded(i, sub, kw) ==
    /\ subs' = Put(subs, pays[i].key,
                   flushed(subs[pays[i].key], sub,
                           paid_row(sub, kw, resolved_credits(kw.plan_name, kw.credits),
                                    plan_credits_from_name(kw.plan_name).is_monthly, now)))
    /\ pays' = [pays EXCEPT ![i].pc = "done", ![i].ok = TRUE]

\* lines 212-228: a row is inserted under number; the unique index on
\* whatsapp_number raises IntegrityError when another session has inserted
\* it meanwhile, which process_webhook_event answers with False (lines
\* 356-358)
inserted(i, number, kw) ==
    IF number \in DOMAIN subs
    THEN /\ pays' = [pays EXCEPT ![i].pc = "done", ![i].ok = FALSE]
         /\ UNCHANGED subs
    ELSE /\ subs' = Put(subs, number,
                        new_row(kw, resolved_credits(kw.plan_name, kw.credits),
                                plan_credits_from_name(kw.plan_name).is_monthly, now))
         /\ pays' = [pays EXCEPT ![i].pc = "done", ![i].ok = TRUE]

\* lines 192-228 of handle_subscription_created in the session of payer i
created_commit(i) ==
    /\ pays[i].pc = "commit"
    /\ IF pays[i].key # None
       THEN updated_loaded(i, pays[i].sub, pays[i].ev.data)
       ELSE inserted(i, normalize_whatsapp_number(pays[i].ev.data.whatsapp_number),
                     pays[i].ev.data)
    /\ UNCHANGED <<processed, reqs, units, now, epoch, payCount, lastPay, hist, bal0, call>>

NextRace ==
    \/ \E i \in PayerIds : created_lookup(i)
    \/ \E i \in PayerIds : created_commit(i)
    \/ \E u \in UnitIds : deduct_read(u)
    \/ \E u \in UnitIds : deduct_write(u)

SpecRace == InitRace /\ [][NextRace]_vars

\* ------------------------------------------------------------------------
\* Properties
\* ------------------------------------------------------------------------
Deducted(mid) == {u \in UnitIds : units[u].mid = mid /\ units[u].deducted}
Succeeded == {u \in UnitIds : units[u].deducted}

\* two ended requests that delivered the same message, with no purge since
\* the first one arrived
SameDelivery(r1, r2) ==
    /\ r1 < r2
    /\ reqs[r1].pc = "done" /\ reqs[r2].pc = "done"
    /\ reqs[r1].mid # NoId
    /\ reqs[r1].mid = reqs[r2].mid /\ reqs[r1].sender = reqs[r2].sender
    /\ reqs[r1].clean

\* C1: a message delivered in two requests one after the other, with no
\* purge in between, gets one background unit (the first delivery's) and
\* one credit is consumed for it.
C1_DuplicateDeliveryOnce ==
    \A r1, r2 \in ReqIds :
        (SameDelivery(r1, r2) /\ reqs[r2].seq /\ reqs[r1].scheduled)
        => /\ ~reqs[r2].scheduled
           /\ Cardinality(Deducted(reqs[r1].mid)) <= 1

\* C2: once a request that admitted a message id has ended, the id is in
\* the committed record set until a purge runs.
C2_AdmittedIsRecorded ==
    \A r \in ReqIds :
        (reqs[r].pc = "done" /\ reqs[r].scheduled /\ reqs[r].clean)
        => reqs[r].mid \in processed

\* C3: of two requests that handled the same message id concurrently,
\* exactly one scheduled a background unit.
C3_ConcurrentAdmitOne ==
    \A r1, r2 \in ReqIds :
        (SameDelivery(r1, r2) /\ ~reqs[r2].seq)
        => (reqs[r1].scheduled # reqs[r2].scheduled)

\* C4: when NumCallers concurrent deduct_credit invocations on a balance
\* M < NumCallers have all returned, exactly M returned true and the
\* balance is 0.
C4_ExactlyBalanceSucceed ==
    ((\A u \in UnitIds : units[u].pc = "done") /\ bal0 < NumCallers)
    => /\ Cardinality(Succeeded) = bal0
       /\ subs[NoPlus].credits = 0

\* C5: under every interleaving of concurrent deduct_credit invocations for
\* one identity the balance is never negative.
C5_BalanceNeverNegative ==
    \A k \in DOMAIN subs : subs[k].credits >= 0

\* witness of C5: invocations raced (more of them succeeded than the
\* balance they started from) and the balance stands at 0
C5_RaceWitness ==
    /\ bal0 >= 1
    /\ Cardinality(Succeeded) > bal0
    /\ subs[NoPlus].credits = 0

\* every ledger operation applied so far is a payment (created/received
\* kind) naming a plan that is monthly (or one that is not)
AllPayments(is_monthly) ==
    /\ hist # <<>>
    /\ \A i \in 1..Len(hist) :
          hist[i].op = "created" /\ hist[i].is_monthly = is_monthly

RECURSIVE SumGrants(_)
SumGrants(h) == IF h = <<>> THEN 0 ELSE Head(h).grant + SumGrants(Tail(h))

\* C6: after a sequence of payment events that all name a recurring plan,
\* the balance is the grant of the last one.
C6_RecurringReplaces ==
    AllPayments(TRUE) => Balance(Canon, subs) = hist[Len(hist)].grant

\* witness of C6: two recurring payments with different grants were applied
C6_TwoRecurringWitness ==
    /\ AllPayments(TRUE)
    /\ Len(hist) >= 2
    /\ hist[1].grant # hist[Len(hist)].grant

\* C7: after a sequence of payment events that all name a one-off plan, the
\* balance is the balance before the first one plus the sum of the grants.
C7_OneOffAccumulates ==
    AllPayments(FALSE) => Balance(Canon, subs) = bal0 + SumGrants(hist)

\* witness of C7: two one-off payments were applied to an account that
\* held credits before
C7_TwoOneOffWitness ==
    /\ AllPayments(FALSE)
    /\ Len(hist) >= 2
    /\ bal0 > 0

\* C8: a ledger mutation that hits a transient storage failure is retried
\* once with a fresh session, and when the retry succeeds the mutation is
\* applied.
C8_TransientRetriedOnce ==
    lastPay.fail = "transient"
    => /\ lastPay.attempts = 2
       /\ lastPay.status = "ok" => lastPay.op \in {"created", "updated", "cancelled"}

\* C9: every subscription row that is written has a key that is a canonical
\* form of the normalizer.
C9_IdentitiesCanonical ==
    [][\A k \in (DOMAIN subs') \ (DOMAIN subs) : normalize_whatsapp_number(k) = k]_vars

\* C10: no two subscription rows have keys with the same canonical form.
C10_OneRowPerIdentity ==
    \A k1, k2 \in DOMAIN subs :
        normalize_whatsapp_number(k1) = normalize_whatsapp_number(k2) => k1 = k2

\* the account of the paying identity, and whether it has one
PayKey == get_subscription(Canon, subs)
HasAccount == PayKey # None

\* C11: every account has a balance of 0 or more, whatever credits a
\* payment payload carries.
C11_BalanceNonNegative ==
    \A k \in DOMAIN subs : ~(subs[k].credits < 0)

\* C12: total_purchased of an account never decreases in a step, and a step
\* that applies a payment raises it by the amount the payment granted.
C12_LifetimeGrantsGrow ==
    [][/\ \A k \in (DOMAIN subs) \cap (DOMAIN subs') :
             subs'[k].total_purchased >= subs[k].total_purchased
       /\ (lastPay'.op = "created" /\ payCount' # payCount)
              => \A k \in (DOMAIN subs) \cap (DOMAIN subs') :
                    subs'[k] # subs[k]
                    => subs'[k].total_purchased
                         = subs[k].total_purchased + hist'[Len(hist')].grant]_vars

\* canTransact as the contract words it: the account exists, is active, its
\* period has not ended, it holds a credit and, for a trial, the question
\* count is below the cap
CanTransact(k, T, t) ==
    /\ k # None
    /\ T[k].status = "active"
    /\ (T[k].subscription_end = NoInt \/ T[k].subscription_end[1] >= t)
    /\ T[k].credits >= 1
    /\ (T[k].is_trial => T[k].message_count < TRIAL_MAX_QUESTIONS)

\* C13: the subscription check of a background unit returns true exactly
\* when the account exists, is active, its period has not ended, it holds a
\* credit and, for a trial, the question count is below the cap.
C13_CanTransactIff ==
    [][\A u \in DOMAIN units :
          (units[u].pc = "queued" /\ units'[u].pc # "queued")
          => (units'[u].allowed
                <=> CanTransact(get_subscription(units[u].sender, subs), subs, now))]_vars

\* witness of C13: a unit was refused for an active trial account at the
\* question cap that holds credits and whose period has not ended
C13_TrialAtCapRefused ==
    /\ NoPlus \in DOMAIN subs
    /\ subs[NoPlus].status = "active" /\ subs[NoPlus].is_trial
    /\ subs[NoPlus].credits > 0
    /\ subs[NoPlus].message_count >= TRIAL_MAX_QUESTIONS
    /\ subs[NoPlus].subscription_end = NoInt
    /\ \E u \in UnitIds : units[u].pc = "done" /\ ~units[u].allowed

\* C14: a background unit reaches deduct_credit only when the answer was
\* generated; a unit whose answer generation raised consumes nothing.
C14_DeductAfterAnswer ==
    \A u \in UnitIds :
        (units[u].pc \in {"deduct", "write"} \/ units[u].deducted) => units[u].answered

\* witness of C14: the subscription check passed, answer generation raised,
\* the unit ended and the account is as it was, while another unit consumed
\* a credit after its answer
C14_FailedAnswerWitness ==
    \E u, v \in UnitIds :
        /\ units[u].pc = "done" /\ units[u].allowed /\ ~units[u].answered
        /\ ~units[u].deducted
        /\ units[v].answered /\ units[v].deducted

\* C15: an answer is generated only for a unit whose subscription check
\* returned true; a refused unit ends without an answer and without
\* consuming a credit, and its step leaves the accounts as they were.
C15_AnswerAfterCanTransact ==
    /\ [](\A u \in UnitIds :
            /\ units[u].answered => units[u].allowed
            /\ (units[u].pc # "queued" /\ ~units[u].allowed)
               => (units[u].pc = "done" /\ ~units[u].answered /\ ~units[u].deducted))
    /\ [][\A u \in DOMAIN units :
            (units[u].pc = "queued" /\ units'[u].pc # "queued" /\ ~units'[u].allowed)
            => subs' = subs]_vars

\* witness of C15: a unit was refused on an account that holds credits (it
\* is not active) and ended with the balance untouched
C15_RefusedWitness ==
    /\ NoPlus \in DOMAIN subs
    /\ subs[NoPlus].status # "active"
    /\ subs[NoPlus].credits = bal0 /\ bal0 > 0
    /\ \A u \in UnitIds : units[u].pc = "done" /\ ~units[u].allowed

\* the kind of the last payment webhook request, as the dispatcher reads it
LastKind == Lower(Strip(lastPay.event))

\* C16: after a "renewed" event that was handled for an existing account,
\* the account is active and no longer a trial.
C16_RenewedIsPayment ==
    (lastPay.status = "ok" /\ LastKind = subscription_renewed /\ HasAccount)
    => (subs[PayKey].status = "active" /\ ~subs[PayKey].is_trial)

\* the cancel forms of the contract
CancelForms == CancelledKinds \cup {subscription_expired}

\* C17: after an event of a cancelled / canceled / expired kind that reached
\* the dispatcher without a storage failure for an existing account, the
\* event is reported handled and the account's status is expired.
C17_CancelFormsCancel ==
    (lastPay.attempts >= 1 /\ lastPay.fail = "none" /\ LastKind \in CancelForms /\ HasAccount)
    => (lastPay.status = "ok" /\ subs[PayKey].status = "expired")

\* C18: an account whose status is blocked stays blocked in every step.
C18_BlockedStays ==
    [][\A k \in DOMAIN subs :
          subs[k].status = "blocked"
          => (k \in DOMAIN subs' /\ subs'[k].status = "blocked")]_vars

\* C19: the status of every account is active, expired or blocked.
C19_StatusInEnum ==
    \A k \in DOMAIN subs : subs[k].status \in {"active", "expired", "blocked"}

\* C20: after a payment event that was applied, the account of the identity
\* is active, whatever its status was before.
C20_PaymentReactivates ==
    lastPay.op = "created" => (HasAccount /\ subs[PayKey].status = "active")

\* witness of C20: an existing account was cancelled, then a payment was
\* applied and the account is active again
C20_ReactivatedWitness ==
    /\ bal0 > 0
    /\ Len(hist) = 2
    /\ hist[1].op = "cancelled" /\ hist[2].op = "created"
    /\ lastPay.op = "created"
    /\ HasAccount /\ subs[PayKey].status = "active"

\* a payment webhook request is handled in this step
PayStep == payCount' # payCount

\* C21: an "updated" event on an existing account leaves the balance and
\* total_purchased of every account as they were.
C21_UpdateKeepsLedger ==
    [][(PayStep /\ lastPay'.op = "updated"
          /\ Lower(Strip(lastPay'.event)) \in {subscription_updated, subscription_updated_dot})
       => \A k \in DOMAIN subs :
             /\ k \in DOMAIN subs'
             /\ subs'[k].credits = subs[k].credits
             /\ subs'[k].total_purchased = subs[k].total_purchased]_vars

\* C22: a cancel event changes nothing but the status of the account, which
\* becomes expired (a second cancel changes nothing any more), and changes
\* nothing at all when the identity has no account.
C22_CancelOnlyExpires ==
    [][(PayStep /\ lastPay'.op = "cancelled")
       => subs' = IF PayKey = None THEN subs
                  ELSE [subs EXCEPT ![PayKey].status = "expired"]]_vars

\* witness of C22: an existing account was cancelled twice; it is expired
\* and holds the balance it started with
C22_CancelledTwiceWitness ==
    /\ bal0 > 0
    /\ Len(hist) = 2
    /\ hist[1].op = "cancelled" /\ hist[2].op = "cancelled"
    /\ HasAccount /\ subs[PayKey].status = "expired" /\ subs[PayKey].credits = bal0

\* C23: a payment applied to an existing account keeps the stored plan
\* name, customer id and period end for which the event carries no value,
\* and keeps a stored is_recurring of True when the event carries none
\* (is_recurring of a payload without one is extracted as False).
C23_PaymentKeepsPopulated ==
    [][(PayStep /\ lastPay'.op = "created" /\ PayKey # None)
       => /\ PayKey \in DOMAIN subs'
          /\ lastPay'.data.plan_name = None
                => subs'[PayKey].plan_name = subs[PayKey].plan_name
          /\ lastPay'.data.plugnpay_customer_id = None
                => subs'[PayKey].plugnpay_customer_id = subs[PayKey].plugnpay_customer_id
          /\ lastPay'.data.subscription_end = NoInt
                => subs'[PayKey].subscription_end = subs[PayKey].subscription_end
          /\ (lastPay'.data.is_recurring # <<TRUE>> /\ subs[PayKey].is_recurring)
                => subs'[PayKey].is_recurring]_vars

\* the entries of the plan table whose key is a substring of the plan label
TableMatches(plan) ==
    IF plan = None THEN {}
    ELSE {i \in 1..Len(PLAN_CREDITS) : Contains(Lower(plan), PLAN_CREDITS[i].key)}

\* the grant the contract gives a payment with the data d: the hint, else
\* the first matching plan entry's amount, else the default
ExpectedGrant(d) ==
    IF d.credits # NoInt THEN d.credits[1]
    ELSE IF TableMatches(d.plan_name) # {}
         THEN PLAN_CREDITS[CHOOSE i \in TableMatches(d.plan_name) :
                              \A j \in TableMatches(d.plan_name) : i <= j].credits
    ELSE DEFAULT_PAYMENT_CREDITS

\* C24: every payment that is applied raises total_purchased by the credits
\* hint of the event when it carries one, else by the amount of the matching
\* plan entry, else by the default grant (a new account starts with it).
C24_GrantResolution ==
    [][(PayStep /\ lastPay'.op = "created")
       => IF PayKey = None
          THEN \A k \in (DOMAIN subs') \ (DOMAIN subs) :
                  /\ subs'[k].total_purchased = ExpectedGrant(lastPay'.data)
                  /\ subs'[k].credits = ExpectedGrant(lastPay'.data)
          ELSE subs'[PayKey].total_purchased
                 = subs[PayKey].total_purchased + ExpectedGrant(lastPay'.data)]_vars

\* witness of C24: a payment without a hint, for a plan no entry matches,
\* was applied to an account that had bought nothing and granted the default
C24_DefaultGrantWitness ==
    /\ payCount = 1 /\ lastPay.op = "created"
    /\ lastPay.data.credits = NoInt /\ lastPay.data.plan_name = PlanGold
    /\ bal0 > 0
    /\ HasAccount /\ subs[PayKey].total_purchased = DEFAULT_PAYMENT_CREDITS

\* C25: a payment with a credits hint c for an identity without an account
\* creates exactly one account, under the canonical form of the phone, with
\* c credits, not a trial, active.
C25_PaymentCreatesAccount ==
    [][(PayStep /\ lastPay'.op = "created" /\ PayKey = None
          /\ lastPay'.data.credits # NoInt)
       => /\ DOMAIN subs' = (DOMAIN subs) \cup {Canon}
          /\ Canon \notin DOMAIN subs
          /\ subs'[Canon].credits = lastPay'.data.credits[1]
          /\ ~subs'[Canon].is_trial
          /\ subs'[Canon].status = "active"]_vars

\* witness of C25: the first payment, carrying 15 credits and the phone
\* written 06..., created the one account +316...
C25_CreatedWitness ==
    /\ bal0 = 0 /\ payCount = 1 /\ lastPay.op = "created"
    /\ lastPay.data.whatsapp_number = Dutch06 /\ lastPay.data.credits = <<15>>
    /\ DOMAIN subs = {Canon}
    /\ subs[Canon].credits = 15 /\ ~subs[Canon].is_trial

\* C26: a row the message intake adds is a trial account (trial credits,
\* active, ending TRIAL_DAYS from now) and is added only when the sender has
\* no account under any accepted spelling.
C26_TrialOnlyForUnknown ==
    [][\A k \in (DOMAIN subs') \ (DOMAIN subs) :
          ~PayStep
          => /\ get_subscription(k, subs) = None
             /\ subs'[k].credits = TRIAL_CREDITS
             /\ subs'[k].is_trial /\ subs'[k].status = "active"
             /\ subs'[k].subscription_end = <<now + TRIAL_DAYS>>]_vars

\* an identity the normalizer cannot turn into a number: none, or no digit
Unnormalizable(n) == n = None \/ \A i \in 1..Len(n) : ~IsDigit(n[i])

\* a kind the contract names no ledger call for
UnknownKind(e) == Lower(Strip(e)) \notin (CreatedKinds \cup UpdatedKinds \cup CancelForms)

\* C27: an event whose identity cannot be normalized, or whose kind is
\* unknown, is answered as not handled, nothing is raised and no account is
\* changed or created.
C27_RejectedEventsNoEffect ==
    [][(PayStep /\ (Unnormalizable(lastPay'.data.whatsapp_number)
                      \/ UnknownKind(lastPay'.event)))
       => (subs' = subs /\ lastPay'.status = "ignored")]_vars

\* witness of C27: an event whose phone holds no digit reached the
\* dispatcher and was answered as not handled
C27_NoDigitsWitness ==
    /\ lastPay.data.whatsapp_number = NoDigits
    /\ lastPay.attempts = 1 /\ lastPay.status = "ignored" /\ lastPay.op = "none"

\* two deliveries of one payment event were both applied
DeliveredTwice ==
    /\ payCount = 2 /\ Len(hist) = 2
    /\ hist[1].op = "created" /\ hist[2].op = "created"
    /\ hist[1].ev = hist[2].ev

\* C28: the second delivery of an identical payment event is accepted and
\* applied again: for a one-off plan the balance is the starting balance plus
\* twice the grant, for a recurring plan it is the grant.
C28_PaymentsNotDeduplicated ==
    DeliveredTwice
    => /\ lastPay.status = "ok"
       /\ Balance(Canon, subs) = IF hist[1].is_monthly THEN hist[1].grant
                                 ELSE bal0 + 2 * hist[1].grant

\* witness of C28: a one-off payment was delivered twice to an account that
\* held credits
C28_DoubleAddWitness ==
    /\ DeliveredTwice
    /\ ~hist[1].is_monthly /\ hist[1].grant > 0 /\ bal0 > 0

\* C29: no payment webhook request that passed the token check ends with
\* an exception leaving the handler (a 5xx response).
C29_NeverServerError ==
    lastPay.status # "raise"

\* the token a header value carries: the value without the "Bearer " scheme
\* word and surrounding blanks
HeaderToken(v) ==
    IF StartsWith(Strip(v), Bearer) THEN Strip(From(Strip(v), Len(Bearer))) ELSE Strip(v)

\* the tokens a request carries, in headers and in the body
Carried(r) ==
    {HeaderToken(r.headers[h]) : h \in {x \in TokenHeaders : r.headers[x] # None}}
    \cup {r.body[k] : k \in {x \in TokenBodyKeys : r.body[x] # None}}

\* a secret is configured, the request carries a token and none is the secret
MustReject(r) == r.secret # None /\ Carried(r) # {} /\ r.secret \notin Carried(r)

\* C30: with a secret configured, a request is answered 403 exactly when
\* it carries a token and none of its tokens is the secret; a request
\* answered 403 changes no account.
C30_TokenCheck ==
    /\ [](payCount > 0 => (lastPay.status = "forbidden" <=> MustReject(lastPay.req)))
    /\ [][(PayStep /\ lastPay'.status = "forbidden") => subs' = subs]_vars

\* C31: normalizing a result of the normalizer gives that result again.
C31_NormalizeIdempotent ==
    call.result # None => normalize_whatsapp_number(call.result) = call.result

\* witness of C31: the normalizer rewrote a text with trunk zero, blanks and
\* a dash, so its result differs from its input
C31_RewrittenWitness ==
    /\ call.value = <<"0", "6"," ","1","2","3","4","-","5","6","7","8">>
    /\ call.result = Canon

\* the spellings of the number: with or without "+", country code, trunk zero
Spellings ==
    { p \o c \o z \o Subscriber : p \in {<<>>, <<"+">>}, c \in {<<>>, <<"3","1">>},
                                  z \in {<<>>, <<"0">>} }

\* C32: every spelling of +31612345678 (with or without "+", with or
\* without the country code, with or without the trunk zero) normalizes to
\* +31612345678.
C32_SpellingsAgree == call.value \in Spellings => call.result = Canon

\* the background tasks a step has added for message mid
NewUnitsFor(mid) ==
    Cardinality({u \in (Len(units) + 1)..Len(units') : units'[u].mid = mid})

\* C33: a message-intake request, with or without a retry after a storage
\* failure, schedules at most one background unit for each message of its
\* body.
C33_RetrySchedulesOnce == [][\A mid \in MessageIds : NewUnitsFor(mid) <= 1]_vars

\* C34: right after a payment with a grant of 1 or more was applied to an
\* account that was not blocked (or to no account), the subscription check
\* of the identity returns true.
C34_PaidCanTransact ==
    [][(/\ PayStep
        /\ lastPay'.op = "created"
        /\ hist'[Len(hist')].grant >= 1
        /\ ~(HasAccount /\ subs[PayKey].status = "blocked"))
       => verify_subscription(Canon, subs', now')]_vars

\* the grant of the payment payer i handles
PayerGrant(i) == resolved_credits(pays[i].ev.data.plan_name, pays[i].ev.data.credits)

RECURSIVE SumPayerGrants(_)
SumPayerGrants(i) == IF i = 0 THEN 0 ELSE PayerGrant(i) + SumPayerGrants(i - 1)

\* C35: when the concurrent payment handlers for one identity have all
\* ended and no credit was consumed meanwhile, the balance is the balance
\* before plus all their grants, and there is one account row.
C35_ConcurrentPaymentsBothApply ==
    ((\A i \in PayerIds : pays[i].pc = "done") /\ pays # <<>> /\ units = <<>>)
    => /\ Balance(Canon, subs) = bal0 + SumPayerGrants(Len(pays))
       /\ Cardinality(DOMAIN subs) = 1

\* C36: when one payment handler and one credit consumption for the same
\* identity have both ended (and no other payment handler has started), the
\* balance is the balance before plus the grant minus one.
C36_PaymentAndDeductBothApply ==
    (/\ pays # <<>>
     /\ pays[1].pc = "done"
     /\ \A i \in PayerIds \ {1} : pays[i].pc = "lookup"
     /\ units # <<>>
     /\ units[1].pc = "done" /\ units[1].deducted)
    => Balance(Canon, subs) = bal0 + PayerGrant(1) - 1

\* the background units that have ended and generated an answer
Answered == {u \in UnitIds : units[u].pc = "done" /\ units[u].answered}

\* C37: when the background units of a sender have all ended, the number of
\* answers generated is at most the number of credits taken from the
\* sender's balance.
C37_AnswersMatchCredits ==
    (\A u \in UnitIds : units[u].pc = "done")
    => Cardinality(Answered) <= bal0 - Balance(NoPlus, subs)

\* C38: when two message-intake requests with different message ids of a
\* sender that had no account have both ended (no payment in between), one
\* account row exists and both messages have a background unit.
C38_ConcurrentFirstMessages ==
    (/\ bal0 = 0 /\ payCount = 0
     /\ \A r \in ReqIds : reqs[r].pc = "done" /\ reqs[r].mid # NoId
     /\ \A r, q \in ReqIds : r # q => reqs[r].mid # reqs[q].mid)
    => /\ Cardinality(DOMAIN subs) = 1
       /\ \A r \in ReqIds : reqs[r].scheduled /\ reqs[r].status = "success"

\* a value of the body that holds no event kind
Kindless(v) ==
    IF v.is_dict THEN ~Truthy(v.trigger_type) /\ ~Truthy(v.event)
    ELSE ~(Truthy(v.text) /\ IsStr(v.text))

\* the body of the last payment webhook request carried no event kind
NoKindCarried ==
    /\ payCount > 0
    /\ Kindless(lastPay.kinds.type)
    /\ Kindless(lastPay.kinds.event)
    /\ Kindless(lastPay.kinds.event_type)

====
